---- MODULE Spec2Model ----
(***************************************************************************)
(* Allocation optimizer and daily performance accounting of the AAVE       *)
(* rebalancer backend (PerformanceService).                                *)
(*                                                                         *)
(* Number representation.  The service computes with IEEE doubles; the     *)
(* model uses exact fixed-point integers:                                  *)
(*   - allocations, liquidity, fund sizes, flows: thousands of dollars     *)
(*     ($K), so 4000 is $4,000,000 and moveAmount is 100;                  *)
(*   - APY and elasticity: thousandths (6500 is 6.5 %, 100 is 0.1);        *)
(*   - a return  allocation * apy / 100  is kept times 100, i.e. in cents  *)
(*     of a dollar: alloc($K) * apy(milli-%) = 100 * dollars.              *)
(* The input sets are chosen so that every quotient the code forms is      *)
(* exact at this resolution.                                               *)
(***************************************************************************)
EXTENDS Integers, Sequences, FiniteSets, TLC

VARIABLES
    \* ---- one call of calculateOptimalAllocation, statement by statement
    chainData,      \* the chainData argument (sequence of per-chain records)
    chainMetrics,   \* the working copy built at lines 605-619
    improved,       \* line 622
    iterations,     \* line 623
    i, j,           \* the loop indices of lines 635-636 (1-based here)
    pc,             \* "while" | "pair" | "done": position in the function
    optArgs,        \* the totalFunds and fundFlows arguments of the call
    passMoves,      \* history: moves committed so far in the current pass
    \* ---- one call of predictAPYAfterFundMovement
    predictArgs,    \* the four arguments
    predictResult,  \* [returned |-> BOOLEAN, value |-> Int]
    \* ---- the database and the calls of calculateDailyPerformance
    daily_performance,  \* table: set of rows, date UNIQUE
    chain_rates,        \* table: set of rows, UNIQUE (date, chain_name)
    fund_flows,         \* table: set of rows with serial id
    lastCall,           \* history: what the latest calculateDailyPerformance
                        \* call was given, handed to the store and returned
    runs,               \* history: number of calculateDailyPerformance calls
    \* ---- the triggers of the daily computation
    today,          \* the calendar date new Date() gives
    runningJobs,    \* the Set of job ids of the cron module
    executions,     \* history: the job executions started so far,
                    \* [trigger, job, date, status]; those of the job
                    \* 'performance-calculation' run calculateDailyPerformance
    \* ---- one call of getAllChainsData
    fetches,        \* per chain: the promise of getAavePoolData(chainName)
    collected       \* [returned |-> BOOLEAN, chains |-> what was returned]

optVars == <<chainData, optArgs, chainMetrics, improved, iterations, i, j, pc, passMoves>>
predVars == <<predictArgs, predictResult>>
dbVars == <<daily_performance, chain_rates, fund_flows>>
dailyVars == <<dbVars, lastCall, runs>>
trigVars == <<today, runningJobs, executions>>
collectVars == <<fetches, collected>>
vars == <<optVars, predVars, dailyVars, trigVars, collectVars>>

-----------------------------------------------------------------------------
(* Bounds of the model *)

\* longest chainData list handed to the optimizer
MaxChains == 2
\* calls of calculateDailyPerformance in one behaviour
MaxRuns == 2
\* rows the fund_flows table can hold
MaxFlows == 2
\* executions of the daily computation triggered in one behaviour
MaxExecutions == 3

-----------------------------------------------------------------------------
(* Program constants *)

\* const moveAmount = 100000  ($K)
moveAmount == 100
\* const maxIterations = 10
maxIterations == 10
\* "+ 1" of line 670, the $1 threshold, in cents
MinImprovementCents == 100

\* SUPPORTED_CHAINS[name].elasticityFactor (config/chains), in thousandths
SUPPORTED_CHAINS ==
    [ethereum |-> [elasticityFactor |-> 100],
     base     |-> [elasticityFactor |-> 200],
     optimism |-> [elasticityFactor |-> 150]]

\* private readonly BASELINE_ALLOCATION, in $K
BASELINE_ALLOCATION == [ethereum |-> 4000, base |-> 1000]
\* Object.entries(this.BASELINE_ALLOCATION): the keys in insertion order
BaselineChainOrder == <<"ethereum", "base">>

\* private readonly FALLBACK_FUND_SIZE = 5000000  ($K)
FALLBACK_FUND_SIZE == 5000

-----------------------------------------------------------------------------
(* Arithmetic helpers *)

Max(a, b) == IF a >= b THEN a ELSE b
Abs(a) == IF a < 0 THEN -a ELSE a
Sign(a) == IF a > 0 THEN 1 ELSE IF a < 0 THEN -1 ELSE 0

\* the quotient a / b of two numbers, b # 0, at the model's resolution
\* (symmetric about zero, exact whenever b divides a)
Quot(a, b) == Sign(a) * Sign(b) * (Abs(a) \div Abs(b))

RECURSIVE SumSeq(_)
SumSeq(s) == IF Len(s) = 0 THEN 0 ELSE Head(s) + SumSeq(Tail(s))

-----------------------------------------------------------------------------
(* predictAPYAfterFundMovement, lines 698-717 *)

\* the same function with the Math.max(0, .) clamp of line 712 left out
predictAPYNoClamp(currentAPY, totalLiquidity, fundMovement, elasticityFactor) ==
    IF totalLiquidity = 0 THEN currentAPY
    ELSE currentAPY + Quot(fundMovement * 100 * elasticityFactor, totalLiquidity)

\* the same function with the sign of the movement ignored
predictAPYUnsigned(currentAPY, totalLiquidity, fundMovement, elasticityFactor) ==
    IF totalLiquidity = 0 THEN currentAPY
    ELSE Max(0, currentAPY + Quot(Abs(fundMovement) * 100 * elasticityFactor, totalLiquidity))

predictAPYAfterFundMovement(currentAPY, totalLiquidity, fundMovement, elasticityFactor) ==
    IF totalLiquidity = 0 THEN currentAPY
    ELSE LET \* utilizationChange = (fundMovement / totalLiquidity) * 100
             utilizationChangeNum == fundMovement * 100
             \* apyChange = utilizationChange * elasticityFactor
             apyChange == Quot(utilizationChangeNum * elasticityFactor, totalLiquidity)
         IN  Max(0, currentAPY + apyChange)

-----------------------------------------------------------------------------
(* calculateOptimalAllocation, lines 584-692 *)

\* parseFloat(chain.totalLiquidity || '0'), line 615: a record without the
\* field (or with an empty one) reads as 0
LiquidityOf(chain) ==
    IF "totalLiquidity" \in DOMAIN chain THEN chain.totalLiquidity ELSE 0

\* lines 595-602: totalFunds + netInflows - netOutflows
AvailableFunds(totalFunds, fundFlows) ==
    LET deposits == SelectSeq(fundFlows, LAMBDA f : f.flowType = "deposit")
        withdrawals == SelectSeq(fundFlows, LAMBDA f : f.flowType = "withdrawal")
        netInflows == SumSeq([k \in 1..Len(deposits) |-> deposits[k].amount])
        netOutflows == SumSeq([k \in 1..Len(withdrawals) |-> withdrawals[k].amount])
    IN  totalFunds + netInflows - netOutflows

\* the seed with each chain's share of the baseline applied to the funds
\* available after flows
SeedAllocationsScaledToFunds(totalFunds, fundFlows) ==
    LET availableFunds == AvailableFunds(totalFunds, fundFlows)
    IN  [c \in DOMAIN BASELINE_ALLOCATION |->
            Quot(BASELINE_ALLOCATION[c] * availableFunds,
                 BASELINE_ALLOCATION["ethereum"] + BASELINE_ALLOCATION["base"])]

\* lines 592-602: allocations = { ...this.BASELINE_ALLOCATION }; availableFunds
\* is computed after it and read by no later statement
SeedAllocations(totalFunds, fundFlows) ==
    LET availableFunds == AvailableFunds(totalFunds, fundFlows)
    IN  BASELINE_ALLOCATION

\* allocations[chain.chainName] || 0, line 617
SeedAllocation(allocations, chainName) ==
    IF chainName \in DOMAIN allocations THEN allocations[chainName] ELSE 0

\* chainData.map(...).filter(chain !== null), lines 605-619
BuildChainMetrics(cd, totalFunds, fundFlows) ==
    LET configured == SelectSeq(cd, LAMBDA c : c.chainName \in DOMAIN SUPPORTED_CHAINS)
        allocations == SeedAllocations(totalFunds, fundFlows)
    IN  [k \in 1..Len(configured) |->
            [chainName        |-> configured[k].chainName,
             currentAPY       |-> configured[k].supplyAPY,
             totalLiquidity   |-> LiquidityOf(configured[k]),
             elasticityFactor |-> SUPPORTED_CHAINS[configured[k].chainName].elasticityFactor,
             currentAllocation |-> SeedAllocation(allocations, configured[k].chainName)]]

\* the loop test with the iteration cap forgotten
ContinueLoopNoCap(imp, iter) == imp

\* the loop test with the cap halved
ContinueLoopHalfCap(imp, iter) == imp /\ iter < 5

\* while (improved && iterations < maxIterations), line 626
ContinueLoop(imp, iter) == imp /\ iter < maxIterations

\* the acceptance test with the comparison turned round
ImprovesReturnReversed(currentReturn, potentialReturn) ==
    potentialReturn < currentReturn + MinImprovementCents

\* the acceptance test without the $1 threshold, equality accepted
ImprovesReturnOrKeeps(currentReturn, potentialReturn) ==
    potentialReturn >= currentReturn

\* if (potentialReturn > currentReturn + 1), line 670 (both sides in cents)
ImprovesReturn(currentReturn, potentialReturn) ==
    potentialReturn > currentReturn + MinImprovementCents

\* the commit with the credit to the destination chain lost
CommitMoveNoCredit(m, a, b, fromNewAPY, toNewAPY) ==
    [m EXCEPT ![a] = [@ EXCEPT !.currentAllocation = @ - moveAmount,
                               !.currentAPY = fromNewAPY],
              ![b] = [@ EXCEPT !.currentAPY = toNewAPY]]

\* the commit that moves the funds and leaves both rates as they were, so
\* that later pairs are evaluated on rates from before the move
CommitMoveKeepsAPY(m, a, b, fromNewAPY, toNewAPY) ==
    [m EXCEPT ![a] = [@ EXCEPT !.currentAllocation = @ - moveAmount],
              ![b] = [@ EXCEPT !.currentAllocation = @ + moveAmount]]

\* lines 674-677: the four assignments of a committed move
CommitMove(m, a, b, fromNewAPY, toNewAPY) ==
    [m EXCEPT ![a] = [@ EXCEPT !.currentAllocation = @ - moveAmount,
                               !.currentAPY = fromNewAPY],
              ![b] = [@ EXCEPT !.currentAllocation = @ + moveAmount,
                               !.currentAPY = toNewAPY]]

\* the body of the inner loop without the test of the source's allocation
TryMoveNoSkip(m, a, b) ==
    LET fromChain == m[a]
        toChain   == m[b]
    IN  IF a = b
        THEN [metrics |-> m, moved |-> FALSE]
        ELSE
          LET fromNewAPY == predictAPYAfterFundMovement(
                                fromChain.currentAPY, fromChain.totalLiquidity,
                                -moveAmount, fromChain.elasticityFactor)
              toNewAPY   == predictAPYAfterFundMovement(
                                toChain.currentAPY, toChain.totalLiquidity,
                                moveAmount, toChain.elasticityFactor)
              currentReturn ==
                  fromChain.currentAllocation * fromChain.currentAPY
                  + toChain.currentAllocation * toChain.currentAPY
              newFromAllocation == fromChain.currentAllocation - moveAmount
              newToAllocation   == toChain.currentAllocation + moveAmount
              potentialReturn ==
                  newFromAllocation * fromNewAPY + newToAllocation * toNewAPY
          IN  IF ImprovesReturn(currentReturn, potentialReturn)
              THEN [metrics |-> CommitMove(m, a, b, fromNewAPY, toNewAPY),
                    moved |-> TRUE]
              ELSE [metrics |-> m, moved |-> FALSE]

\* the body of the inner loop for the pair (a, b), lines 637-680;
\* moved = the assignment improved = true was executed
TryMove(m, a, b) ==
    LET fromChain == m[a]
        toChain   == m[b]
    IN  IF a = b \/ fromChain.currentAllocation < moveAmount
        THEN [metrics |-> m, moved |-> FALSE]
        ELSE
          LET fromNewAPY == predictAPYAfterFundMovement(
                                fromChain.currentAPY, fromChain.totalLiquidity,
                                -moveAmount, fromChain.elasticityFactor)
              toNewAPY   == predictAPYAfterFundMovement(
                                toChain.currentAPY, toChain.totalLiquidity,
                                moveAmount, toChain.elasticityFactor)
              currentReturn ==
                  fromChain.currentAllocation * fromChain.currentAPY
                  + toChain.currentAllocation * toChain.currentAPY
              newFromAllocation == fromChain.currentAllocation - moveAmount
              newToAllocation   == toChain.currentAllocation + moveAmount
              potentialReturn ==
                  newFromAllocation * fromNewAPY + newToAllocation * toNewAPY
          IN  IF ImprovesReturn(currentReturn, potentialReturn)
              THEN [metrics |-> CommitMove(m, a, b, fromNewAPY, toNewAPY),
                    moved |-> TRUE]
              ELSE [metrics |-> m, moved |-> FALSE]

\* chainMetrics.map(chain => ({chainName, allocation, predictedAPY})), 687-691
OptimizerResult(m) ==
    [k \in 1..Len(m) |->
        [chainName    |-> m[k].chainName,
         allocation   |-> m[k].currentAllocation,
         predictedAPY |-> m[k].currentAPY]]

\* the two nested for-loops of one pass run to their end from pair (a, b)
\* (CHOOSE o \in {e} : TRUE is e, evaluated once)
RECURSIVE RunPairs(_, _, _, _)
RunPairs(m, imp, a, b) ==
    IF a > Len(m) THEN [metrics |-> m, improved |-> imp]
    ELSE IF b > Len(m) THEN RunPairs(m, imp, a + 1, 1)
    ELSE LET out == CHOOSE o \in {TryMove(m, a, b)} : TRUE
         IN  RunPairs(out.metrics, imp \/ out.moved, a, b + 1)

\* the while loop run to its end
RECURSIVE RunPasses(_, _, _)
RunPasses(m, imp, iter) ==
    IF ~ContinueLoop(imp, iter) THEN [metrics |-> m, iterations |-> iter]
    ELSE LET pass == CHOOSE o \in {RunPairs(m, FALSE, 1, 1)} : TRUE
         IN  RunPasses(pass.metrics, pass.improved, iter + 1)

\* the whole call, as its callers see it
calculateOptimalAllocation(cd, totalFunds, fundFlows) ==
    OptimizerResult(
        RunPasses(BuildChainMetrics(cd, totalFunds, fundFlows), TRUE, 0).metrics)

-----------------------------------------------------------------------------
(* IEEE-754 values of the differential computation.  A double is modelled as
   [k, v]: k = "fin" with the exact integer value v, k = "inf" with v = 1 or
   -1 for +Infinity / -Infinity, k = "nan", or k = "undefined" for a property
   that was never set.  Totals are in whole dollars, percentages in
   millionths of a percent. *)

Fin(n) == [k |-> "fin", v |-> n]
Inf(sgn) == [k |-> "inf", v |-> sgn]
NaN == [k |-> "nan", v |-> 0]
Undefined == [k |-> "undefined", v |-> 0]
Null == [k |-> "null", v |-> 0]

IsFinite(x) == x.k = "fin"

RECURSIVE GCD(_, _)
GCD(a, b) == IF b = 0 THEN a ELSE GCD(b, a % b)

\* a - b on doubles
FSub(a, b) ==
    IF a.k = "fin" /\ b.k = "fin" THEN Fin(a.v - b.v)
    ELSE IF a.k = "inf" /\ b.k = "fin" THEN a
    ELSE IF a.k = "fin" /\ b.k = "inf" THEN Inf(-b.v)
    ELSE IF a.k = "inf" /\ b.k = "inf" /\ a.v # b.v THEN a
    ELSE NaN

\* a > 0 on doubles (false for NaN)
FPositive(a) ==
    \/ a.k = "fin" /\ a.v > 0
    \/ a.k = "inf" /\ a.v > 0

\* floor(|a| * 10^digits / b) for 0 <= a, 0 < b, by long division
RECURSIVE DecDiv(_, _, _)
DecDiv(a, b, digits) ==
    IF digits = 0 THEN a \div b
    ELSE (a \div b) * 10 ^ digits + DecDiv((a % b) * 10, b, digits - 1)

\* (a / b) * 100 on doubles, line 325; the result in millionths of a percent
FPercentOf(a, b) ==
    IF a.k = "nan" \/ b.k = "nan" THEN NaN
    ELSE IF b.k = "inf" THEN (IF a.k = "inf" THEN NaN ELSE Fin(0))
    ELSE IF a.k = "inf" THEN Inf(IF b.v < 0 THEN -a.v ELSE a.v)
    ELSE IF b.v = 0 THEN (IF a.v = 0 THEN NaN ELSE Inf(Sign(a.v)))
    ELSE Fin(Sign(a.v) * Sign(b.v) * DecDiv(Abs(a.v) * 100, Abs(b.v), 6))

\* (totalFundSize + netFlow) / totalFundSize, line 317: a ratio num / den in
\* lowest terms with den > 0, or what the division by zero yields
FlowMultiplier(totalFundSize, netFlow) ==
    IF totalFundSize # 0
    THEN LET g == GCD(Abs(totalFundSize + netFlow), Abs(totalFundSize))
         IN  [k |-> "fin",
              num |-> Sign(totalFundSize) * ((totalFundSize + netFlow) \div g),
              den |-> Abs(totalFundSize) \div g]
    ELSE IF netFlow > 0 THEN [k |-> "inf", num |-> 1, den |-> 0]
    ELSE IF netFlow < 0 THEN [k |-> "inf", num |-> -1, den |-> 0]
    ELSE [k |-> "nan", num |-> 0, den |-> 0]

\* value * fundFlowMultiplier, lines 319-320, for a finite value >= 0
TimesMultiplier(value, mult) ==
    IF mult.k = "fin" THEN Fin(Quot(value * mult.num, mult.den))
    ELSE IF mult.k = "inf" /\ value # 0 THEN Inf(mult.num)
    ELSE NaN

-----------------------------------------------------------------------------
(* calculateDailyPerformance and what it calls, lines 246-578 and 753-838 *)

NULL == "NULL"

\* the calendar dates of the model, as day numbers
Dates == {1, 2}

\* getTotalFundSize with a catch block that returns no fallback: a failed
\* oracle call reads as a pool value of 0
getTotalFundSizeNoFallback(oracle) ==
    oracle.poolValue

\* getTotalFundSize, lines 246-256: the oracle's value, or the fallback when
\* the oracle call throws
getTotalFundSize(oracle) ==
    IF oracle.ok THEN oracle.poolValue ELSE FALLBACK_FUND_SIZE

\* utilizationData.find(d => d.chainName === name): the index, 0 if none
FindChain(ud, name) ==
    IF \E k \in 1..Len(ud) : ud[k].chainName = name
    THEN CHOOSE k \in 1..Len(ud) :
            /\ ud[k].chainName = name
            /\ \A l \in 1..(k - 1) : ud[l].chainName # name
    ELSE 0

\* chainData.utilizationRate, lines 521 and 568: undefined when the record
\* has no such property
UtilizationRateOf(chain) ==
    IF "utilizationRate" \in DOMAIN chain THEN Fin(chain.utilizationRate)
    ELSE Undefined

\* allocation * (1 + apy / 365 / 100), lines 512-513 and 559-560, in dollars
ChainValue(allocation, apy) ==
    allocation * 1000 + Quot(allocation * apy, 36500)

\* calculateBaselinePerformance, lines 540-578
RECURSIVE BaselineChains(_, _)
BaselineChains(ud, k) ==
    IF k > Len(BaselineChainOrder) THEN <<>>
    ELSE LET chainName == BaselineChainOrder[k]
             at == FindChain(ud, chainName)
         IN  IF at = 0 THEN BaselineChains(ud, k + 1)
             ELSE <<[chainName |-> chainName,
                     allocation |-> BASELINE_ALLOCATION[chainName],
                     apy |-> ud[at].supplyAPY,
                     utilizationRatio |-> UtilizationRateOf(ud[at]),
                     totalSupply |-> LiquidityOf(ud[at])]>>
                  \o BaselineChains(ud, k + 1)

calculateBaselinePerformance(ud) ==
    LET chains == BaselineChains(ud, 1)
    IN  [totalValue |-> SumSeq([k \in 1..Len(chains) |->
                                   ChainValue(chains[k].allocation, chains[k].apy)]),
         chains |-> chains]

\* the optimized performance with the chains outside the baseline left out
calculateOptimizedPerformanceOfBaselineChains(ud, fundFlows, totalFundSize) ==
    LET optimalAllocation ==
            CHOOSE o \in {calculateOptimalAllocation(ud, totalFundSize, fundFlows)} : TRUE
        found == SelectSeq(optimalAllocation,
                           LAMBDA c : /\ FindChain(ud, c.chainName) # 0
                                      /\ c.chainName \in DOMAIN BASELINE_ALLOCATION)
        chains == [k \in 1..Len(found) |->
                      LET chainRecord == ud[FindChain(ud, found[k].chainName)]
                      IN  [chainName |-> found[k].chainName,
                           allocation |-> found[k].allocation,
                           apy |-> found[k].predictedAPY,
                           utilizationRatio |-> UtilizationRateOf(chainRecord),
                           totalSupply |-> LiquidityOf(chainRecord)]]
    IN  [totalValue |-> SumSeq([k \in 1..Len(chains) |->
                                   ChainValue(chains[k].allocation, chains[k].apy)]),
         chains |-> chains]

\* calculateOptimizedPerformanceWithFlows, lines 483-535
calculateOptimizedPerformanceWithFlows(ud, fundFlows, totalFundSize) ==
    LET optimalAllocation ==
            CHOOSE o \in {calculateOptimalAllocation(ud, totalFundSize, fundFlows)} : TRUE
        found == SelectSeq(optimalAllocation,
                           LAMBDA c : FindChain(ud, c.chainName) # 0)
        chains == [k \in 1..Len(found) |->
                      LET chainRecord == ud[FindChain(ud, found[k].chainName)]
                      IN  [chainName |-> found[k].chainName,
                           allocation |-> found[k].allocation,
                           apy |-> found[k].predictedAPY,
                           utilizationRatio |-> UtilizationRateOf(chainRecord),
                           totalSupply |-> LiquidityOf(chainRecord)]]
    IN  [totalValue |-> SumSeq([k \in 1..Len(chains) |->
                                   ChainValue(chains[k].allocation, chains[k].apy)]),
         chains |-> chains]

\* the set of rows as the list ORDER BY created_at gives (ids are serial)
RECURSIVE RowsInOrder(_)
RowsInOrder(rows) ==
    IF rows = {} THEN <<>>
    ELSE LET first == CHOOSE r \in rows : \A q \in rows : r.id <= q.id
         IN  <<first>> \o RowsInOrder(rows \ {first})

\* getFundFlows, lines 395-418
getFundFlows(flows, date) ==
    RowsInOrder({f \in flows : f.date = date})

\* the sum with the filter on flowType left out
SumFlowsOfAnyType(fundFlows, type) ==
    SumSeq([k \in 1..Len(fundFlows) |-> fundFlows[k].amount])

\* fundFlows.filter(f => f.flowType === type).reduce(sum + amount), 305-311
SumFlows(fundFlows, type) ==
    LET picked == SelectSeq(fundFlows, LAMBDA f : f.flowType = type)
    IN  SumSeq([k \in 1..Len(picked) |-> picked[k].amount])

\* getPreviousDayTotal, lines 457-478
getPreviousDayTotal(table, currentDate) ==
    IF \E r \in table : r.date = currentDate - 1
    THEN (CHOOSE r \in table : r.date = currentDate - 1).totalFundAllocationOptimized
    ELSE Null

\* lines 317-326 with the differential taken before the flow adjustment
ComputeDifferentialUnadjusted(baselineValue, optimizedValue, totalFundSize, netFlow) ==
    LET fundFlowMultiplier == FlowMultiplier(totalFundSize, netFlow)
        adjustedBaselineValue == TimesMultiplier(baselineValue, fundFlowMultiplier)
        adjustedOptimizedValue == TimesMultiplier(optimizedValue, fundFlowMultiplier)
        differential == Fin(optimizedValue - baselineValue)
    IN  [adjustedBaselineValue |-> adjustedBaselineValue,
         adjustedOptimizedValue |-> adjustedOptimizedValue,
         differential |-> differential,
         differentialPercentage |->
             IF FPositive(adjustedBaselineValue)
             THEN FPercentOf(differential, adjustedBaselineValue)
             ELSE Fin(0)]

\* lines 317-326 with the percentage taken of the optimized total
ComputeDifferentialOfOptimized(baselineValue, optimizedValue, totalFundSize, netFlow) ==
    LET fundFlowMultiplier == FlowMultiplier(totalFundSize, netFlow)
        adjustedBaselineValue == TimesMultiplier(baselineValue, fundFlowMultiplier)
        adjustedOptimizedValue == TimesMultiplier(optimizedValue, fundFlowMultiplier)
        differential == FSub(adjustedOptimizedValue, adjustedBaselineValue)
    IN  [adjustedBaselineValue |-> adjustedBaselineValue,
         adjustedOptimizedValue |-> adjustedOptimizedValue,
         differential |-> differential,
         differentialPercentage |->
             IF FPositive(adjustedBaselineValue)
             THEN FPercentOf(differential, adjustedOptimizedValue)
             ELSE Fin(0)]

\* lines 317-326 with the sign of the differential lost in the percentage
ComputeDifferentialGuardInverted(baselineValue, optimizedValue, totalFundSize, netFlow) ==
    LET fundFlowMultiplier == FlowMultiplier(totalFundSize, netFlow)
        adjustedBaselineValue == TimesMultiplier(baselineValue, fundFlowMultiplier)
        adjustedOptimizedValue == TimesMultiplier(optimizedValue, fundFlowMultiplier)
        differential == FSub(adjustedOptimizedValue, adjustedBaselineValue)
    IN  [adjustedBaselineValue |-> adjustedBaselineValue,
         adjustedOptimizedValue |-> adjustedOptimizedValue,
         differential |-> differential,
         differentialPercentage |->
             IF ~FPositive(adjustedBaselineValue)
             THEN FPercentOf(differential, adjustedBaselineValue)
             ELSE Fin(0)]

\* lines 317-326: multiplier, adjusted totals, differential and percentage
ComputeDifferential(baselineValue, optimizedValue, totalFundSize, netFlow) ==
    LET fundFlowMultiplier == FlowMultiplier(totalFundSize, netFlow)
        adjustedBaselineValue == TimesMultiplier(baselineValue, fundFlowMultiplier)
        adjustedOptimizedValue == TimesMultiplier(optimizedValue, fundFlowMultiplier)
        differential == FSub(adjustedOptimizedValue, adjustedBaselineValue)
    IN  [adjustedBaselineValue |-> adjustedBaselineValue,
         adjustedOptimizedValue |-> adjustedOptimizedValue,
         differential |-> differential,
         differentialPercentage |->
             IF FPositive(adjustedBaselineValue)
             THEN FPercentOf(differential, adjustedBaselineValue)
             ELSE Fin(0)]

\* lines 334-354: one entry per baseline chain the optimized result also has
RECURSIVE MergeChains(_, _, _)
MergeChains(baselineChains, optimizedChains, k) ==
    IF k > Len(baselineChains) THEN <<>>
    ELSE LET baselineChain == baselineChains[k]
             at == FindChain(optimizedChains, baselineChain.chainName)
         IN  IF at = 0 THEN MergeChains(baselineChains, optimizedChains, k + 1)
             ELSE <<[chainName |-> baselineChain.chainName,
                     apyBaseline |-> baselineChain.apy,
                     apyOptimized |-> optimizedChains[at].apy,
                     allocationBaseline |-> baselineChain.allocation,
                     allocationOptimized |-> optimizedChains[at].allocation,
                     utilizationRatio |-> baselineChain.utilizationRatio,
                     totalSupply |-> baselineChain.totalSupply]>>
                  \o MergeChains(baselineChains, optimizedChains, k + 1)

\* lines 302-370: the record calculateDailyPerformance hands to
\* storeDailyPerformance, from the two performances of lines 293-300
DailyRecord(date, totalFundSize, baselinePerformance, optimizedPerformance, fundFlows) ==
    LET totalInflows == SumFlows(fundFlows, "deposit")
        totalOutflows == SumFlows(fundFlows, "withdrawal")
        netFlow == totalInflows - totalOutflows
        d == ComputeDifferential(baselinePerformance.totalValue,
                                 optimizedPerformance.totalValue,
                                 totalFundSize, netFlow)
    IN  [date |-> date,
         totalFundAllocationBaseline |-> d.adjustedBaselineValue,
         totalFundAllocationOptimized |-> d.adjustedOptimizedValue,
         differential |-> d.differential,
         differentialPercentage |-> d.differentialPercentage,
         totalInflows |-> totalInflows,
         totalOutflows |-> totalOutflows,
         netFlow |-> netFlow,
         previousDayTotal |-> totalFundSize,
         chains |-> MergeChains(baselinePerformance.chains,
                                optimizedPerformance.chains, 1)]

\* the columns of the daily_performance row of a record, lines 784-794
DailyRow(data) ==
    [date |-> data.date,
     totalFundAllocationBaseline |-> data.totalFundAllocationBaseline,
     totalFundAllocationOptimized |-> data.totalFundAllocationOptimized,
     differential |-> data.differential,
     differentialPercentage |-> data.differentialPercentage,
     totalInflows |-> data.totalInflows,
     totalOutflows |-> data.totalOutflows,
     netFlow |-> data.netFlow,
     previousDayTotal |-> data.previousDayTotal]

\* the columns of a chain_rates row, lines 811-820
ChainRateRow(date, chain) ==
    [date |-> date,
     chainName |-> chain.chainName,
     apyBaseline |-> chain.apyBaseline,
     apyOptimized |-> chain.apyOptimized,
     allocationBaseline |-> chain.allocationBaseline,
     allocationOptimized |-> chain.allocationOptimized,
     utilizationRatio |-> chain.utilizationRatio,
     totalSupply |-> chain.totalSupply]

ChainRateRows(data) ==
    {ChainRateRow(data.date, data.chains[k]) : k \in 1..Len(data.chains)}

\* the upsert with DO UPDATE SET adding the flow totals to the stored ones
UpsertDailyPerformanceAccumulating(table, row) ==
    LET old == {r \in table : r.date = row.date}
    IN  {r \in table : r.date # row.date}
        \cup {IF old = {} THEN row
              ELSE [row EXCEPT
                      !.totalInflows = @ + (CHOOSE r \in old : TRUE).totalInflows,
                      !.totalOutflows = @ + (CHOOSE r \in old : TRUE).totalOutflows]}

\* INSERT ... ON CONFLICT (date) DO UPDATE SET ..., lines 768-794
UpsertDailyPerformance(table, row) ==
    {r \in table : r.date # row.date} \cup {row}

\* the upsert loop without its ON CONFLICT clause taking effect
UpsertChainRatesAppending(table, rows) ==
    table \cup rows

\* for each chain: INSERT ... ON CONFLICT (date, chain_name) DO UPDATE SET ...,
\* lines 799-821
UpsertChainRates(table, rows) ==
    {r \in table :
        \A n \in rows : ~(r.date = n.date /\ r.chainName = n.chainName)}
    \cup rows

-----------------------------------------------------------------------------
(* Inputs of an optimizer call *)

ChainNames == DOMAIN SUPPORTED_CHAINS

\* supplyAPY values (calculateAPY returns 0..1000 %), in thousandths of a percent
APYInputs == {50, 4000, 6000}

\* totalLiquidity values in $K; 0 is also what a missing field reads as
LiquidityInputs == {0, 20000, 100000}

ChainInputs ==
    [chainName : ChainNames, supplyAPY : APYInputs, totalLiquidity : LiquidityInputs]

\* lists of at most n chain records, one per chain name
ChainLists(n, records) ==
    {s \in UNION {[1..k -> records] : k \in 0..n} :
        \A a, b \in DOMAIN s : a # b => s[a].chainName # s[b].chainName}

OptimizerInputs == ChainLists(MaxChains, ChainInputs)

\* the totalFunds ($K) and fundFlows arguments of a call: $5M with no flows,
\* or $10M with a withdrawal of $6M
OptimizerArgs ==
    {[totalFunds |-> 5000, fundFlows |-> <<>>],
     [totalFunds |-> 10000,
      fundFlows |-> <<[flowType |-> "withdrawal", amount |-> 6000]>>]}

-----------------------------------------------------------------------------
(* One call of calculateOptimalAllocation, statement by statement *)

PredictIdle ==
    /\ predictArgs = <<0, 0, 0, 0>>
    /\ predictResult = [returned |-> FALSE, value |-> 0]

\* an empty database and no calculateDailyPerformance call so far
NoCall ==
    [outcome |-> "none", date |-> 0, oracleFailed |-> FALSE, totalFundSize |-> 0,
     utilizationData |-> <<>>, fundFlows |-> <<>>, baselineConfig |-> {},
     repeated |-> FALSE,
     baselineValue |-> 0, optimizedValue |-> 0, handed |-> <<>>]

DailyIdle ==
    /\ daily_performance = {}
    /\ chain_rates = {}
    /\ fund_flows = {}
    /\ lastCall = NoCall
    /\ runs = 0

\* no trigger has fired yet
TriggersIdle ==
    /\ today = 1
    /\ runningJobs = {}
    /\ executions = <<>>

\* getAllChainsData has not been called
CollectIdle ==
    /\ fetches = [c \in ChainNames |-> [status |-> "idle", supplyAPY |-> 0]]
    /\ collected = [returned |-> FALSE, chains |-> <<>>]

\* no optimizer call is being stepped through
OptimizerIdle ==
    /\ chainData = <<>>
    /\ optArgs = [totalFunds |-> 0, fundFlows |-> <<>>]
    /\ chainMetrics = <<>>
    /\ improved = FALSE
    /\ iterations = 0
    /\ i = 0
    /\ j = 0
    /\ pc = "idle"
    /\ passMoves = 0

InitOptimizer ==
    /\ chainData \in OptimizerInputs
    /\ optArgs \in OptimizerArgs
    /\ chainMetrics = BuildChainMetrics(chainData, optArgs.totalFunds, optArgs.fundFlows)
    /\ improved = TRUE
    /\ iterations = 0
    /\ i = 0
    /\ j = 0
    /\ pc = "while"
    /\ passMoves = 0
    /\ PredictIdle
    /\ DailyIdle
    /\ TriggersIdle
    /\ CollectIdle

\* the loop test succeeds: lines 626-628, and the for-loops are entered
BeginPass ==
    /\ pc = "while"
    /\ ContinueLoop(improved, iterations)
    /\ improved' = FALSE
    /\ iterations' = iterations + 1
    /\ passMoves' = 0
    /\ IF Len(chainMetrics) = 0
       THEN pc' = "while" /\ i' = 0 /\ j' = 0
       ELSE pc' = "pair" /\ i' = 1 /\ j' = 1
    /\ UNCHANGED <<trigVars, collectVars>>
    /\ UNCHANGED <<chainData, optArgs, chainMetrics, predVars, dailyVars>>

\* one execution of the inner loop body and the loop increments
EvalPair ==
    /\ pc = "pair"
    /\ LET out == TryMove(chainMetrics, i, j)
       IN  /\ chainMetrics' = out.metrics
           /\ improved' = (improved \/ out.moved)
           /\ passMoves' = passMoves + (IF out.moved THEN 1 ELSE 0)
    /\ IF j < Len(chainMetrics)
       THEN i' = i /\ j' = j + 1 /\ pc' = "pair"
       ELSE IF i < Len(chainMetrics)
            THEN i' = i + 1 /\ j' = 1 /\ pc' = "pair"
            ELSE i' = 0 /\ j' = 0 /\ pc' = "while"
    /\ UNCHANGED <<trigVars, collectVars>>
    /\ UNCHANGED <<chainData, optArgs, iterations, predVars, dailyVars>>

\* the loop test fails: lines 685-691, the function returns
ReturnAllocation ==
    /\ pc = "while"
    /\ ~ContinueLoop(improved, iterations)
    /\ pc' = "done"
    /\ UNCHANGED <<trigVars, collectVars>>
    /\ UNCHANGED <<chainData, optArgs, chainMetrics, improved, iterations, i, j, passMoves, predVars,
                   dailyVars>>

NextOptimizer == BeginPass \/ EvalPair \/ ReturnAllocation

SpecOptimizer == InitOptimizer /\ [][NextOptimizer]_vars

\* the function is synchronous: once called it runs to its return
FairSpecOptimizer == SpecOptimizer /\ WF_vars(NextOptimizer)

-----------------------------------------------------------------------------
(* One call of predictAPYAfterFundMovement on arguments of the caller's choice,
   as testElasticityModel makes it (aaveResolvers.ts lines 178-190) *)

\* currentAPY in thousandths of a percent
PredictAPYArgs == {0, 50, 3800, 6500, 7800}
\* totalLiquidity in $K
PredictLiquidityArgs == {0, 1000, 5000, 10000}
\* fundMovement in $K, signed; -50000 is a withdrawal of $50M
PredictMovementArgs == {-50000, -1000, -100, 0, 100, 1000}
\* elasticityFactor in thousandths
PredictElasticityArgs == {0, 100, 200}

InitPredict ==
    /\ predictArgs \in PredictAPYArgs \X PredictLiquidityArgs
                        \X PredictMovementArgs \X PredictElasticityArgs
    /\ predictResult = [returned |-> FALSE, value |-> 0]
    /\ OptimizerIdle
    /\ DailyIdle
    /\ TriggersIdle
    /\ CollectIdle

Predict ==
    /\ ~predictResult.returned
    /\ predictResult' =
          [returned |-> TRUE,
           value |-> predictAPYAfterFundMovement(predictArgs[1], predictArgs[2],
                                                 predictArgs[3], predictArgs[4])]
    /\ UNCHANGED <<trigVars, collectVars>>
    /\ UNCHANGED <<predictArgs, optVars, dailyVars>>

NextPredict == Predict

SpecPredict == InitPredict /\ [][NextPredict]_vars

-----------------------------------------------------------------------------
(* The daily computation against the database *)

\* Object.keys(SUPPORTED_CHAINS): the order getAllChainsData returns chains in
SupportedChainOrder == <<"ethereum", "base", "optimism">>

\* supplyAPY values of the daily computation, in thousandths of a percent
\* (73 % and 346.75 %: whole dollars of daily interest per $100,000)
UtilizationAPYInputs == {73000, 346750}

\* what getUtilizationData returns (aaveDataService.ts lines 160-171): one
\* record per chain whose fetch succeeded, in the order of SUPPORTED_CHAINS
UtilizationRecord(chainName, apy) ==
    [chainName |-> chainName,
     utilizationRatio |-> 500,
     totalSupply |-> 20000,
     supplyAPY |-> apy]

UtilizationList(apys) ==
    [k \in 1..Len(apys) |-> UtilizationRecord(apys[k][1], apys[k][2])]

UtilizationInputs ==
    {UtilizationList(apys) :
        apys \in {<<>>,
                  <<<<"ethereum", 73000>>>>,
                  <<<<"optimism", 73000>>>>,
                  <<<<"ethereum", 73000>>, <<"base", 73000>>>>,
                  <<<<"ethereum", 73000>>, <<"base", 346750>>>>,
                  <<<<"ethereum", 73000>>, <<"base", 73000>>,
                    <<"optimism", 346750>>>>}}

\* lines 293-300: the baseline and the optimized performance of the day.
\* Both are functions of the utilization data alone: fundFlows and
\* totalFundSize reach only availableFunds (line 602), which no statement
\* reads, so the table is computed once per utilization list
PerformancesOf ==
    [ud \in UtilizationInputs |->
        [baselinePerformance |-> calculateBaselinePerformance(ud),
         optimizedPerformance |->
             calculateOptimizedPerformanceWithFlows(ud, <<>>, FALLBACK_FUND_SIZE)]]

\* oracleClient.getPoolValue(): throws, or returns the pool value in $K
OracleOutcomes ==
    {[ok |-> FALSE, poolValue |-> 0]}
    \cup {[ok |-> TRUE, poolValue |-> v] : v \in {0, 1000}}

\* the flowData arguments of addFundFlow: a deposit of $1M or a withdrawal of
\* $6M, with or without a transaction hash
FlowInputs ==
    {[date |-> d, chainName |-> "ethereum", flowType |-> t[1], amount |-> t[2],
      transactionHash |-> h] :
        d \in Dates, t \in {<<"deposit", 1000>>, <<"withdrawal", 6000>>},
        h \in {"0xa", NULL}}

InitDaily ==
    /\ DailyIdle
    /\ TriggersIdle
    /\ CollectIdle
    /\ OptimizerIdle
    /\ PredictIdle

\* addFundFlow, lines 423-452: INSERT ... ON CONFLICT (date, chain_name,
\* transaction_hash) DO NOTHING on the table with its UNIQUE constraint
\* (part_004 lines 158-170); a NULL hash (transactionHash || null) conflicts
\* with no row.  On a table created without the constraint (migrate.ts lines
\* 191-202) the statement throws and addFundFlow rethrows: nothing changes,
\* which is a stuttering step.
AddFundFlow(flowData) ==
    /\ Cardinality(fund_flows) < MaxFlows
    /\ LET conflict ==
               \E f \in fund_flows :
                   /\ f.date = flowData.date
                   /\ f.chainName = flowData.chainName
                   /\ f.transactionHash # NULL
                   /\ f.transactionHash = flowData.transactionHash
           id == 1 + Cardinality(fund_flows)
       IN  fund_flows' =
               IF conflict THEN fund_flows
               ELSE fund_flows \cup
                    {[id |-> id, date |-> flowData.date,
                      chainName |-> flowData.chainName,
                      flowType |-> flowData.flowType,
                      amount |-> flowData.amount,
                      transactionHash |-> flowData.transactionHash]}
    /\ UNCHANGED <<trigVars, collectVars>>
    /\ UNCHANGED <<daily_performance, chain_rates, lastCall, runs, optVars, predVars>>

\* the rows of baseline_configuration as runMigrations leaves them
\* (connection.ts lines 196-206), effective from day 2 with no end, in $K
baseline_configuration ==
    {[chainName |-> "ethereum", initialAllocation |-> 2500,
      effectiveFrom |-> 2, effectiveTo |-> NULL],
     [chainName |-> "base", initialAllocation |-> 1000,
      effectiveFrom |-> 2, effectiveTo |-> NULL],
     [chainName |-> "optimism", initialAllocation |-> 750,
      effectiveFrom |-> 2, effectiveTo |-> NULL]}

\* getBaselineAllocation, lines 734-748: the allocation per chain of the rows
\* effective on the date, or BASELINE_ALLOCATION when there is none
getBaselineAllocation(table, date) ==
    LET results == {r \in table :
                       /\ r.effectiveFrom <= date
                       /\ (r.effectiveTo = NULL \/ r.effectiveTo > date)}
        allocation == [c \in {r.chainName : r \in results} |->
                          (CHOOSE r \in results : r.chainName = c).initialAllocation]
    IN  IF results # {} THEN allocation ELSE BASELINE_ALLOCATION

\* the test of line 272 answered with "there is data" whatever the list
NoUtilizationDataIgnored(ud) ==
    FALSE

\* utilizationData.length === 0, line 272
NoUtilizationData(ud) ==
    Len(ud) = 0

\* the tables after the first n statements of storeDailyPerformance: the
\* upsert of the daily row, then the upserts of the chain rows in order
TablesAfter(tables, data, n) ==
    [daily_performance |->
        IF n >= 1
        THEN UpsertDailyPerformance(tables.daily_performance, DailyRow(data))
        ELSE tables.daily_performance,
     chain_rates |->
        UpsertChainRates(tables.chain_rates,
                         {ChainRateRow(data.date, data.chains[k]) :
                             k \in 1..Max(0, n - 1)})]

\* transaction() without its ROLLBACK: the writes made before the throw stay
transactionNoRollback(before, after, threw) ==
    after

\* transaction(), connection.ts lines 60-76: COMMIT when the callback
\* returns, ROLLBACK when it throws
transaction(before, after, threw) ==
    IF threw THEN before ELSE after

\* storeDailyPerformance, lines 753-838, as one transaction: failAt = 0 when
\* every statement succeeds, else the number of the statement that throws
\* (1 = the daily row, 1 + k = the k-th chain row; the database rejects, for
\* one, a NULL utilization_ratio where the column is still NOT NULL)
storeDailyPerformance(tables, data, failAt) ==
    LET done == IF failAt = 0 THEN 1 + Len(data.chains) ELSE failAt - 1
    IN  transaction(tables, TablesAfter(tables, data, done), failAt # 0)

\* calculateDailyPerformance(date), lines 262-388: the no-data return, or the
\* record computed and stored; a throw of the store is rethrown to the caller
\* (lines 384-387)
CalculateDailyPerformance(date) ==
    /\ runs < MaxRuns
    /\ runs' = runs + 1
    /\ \E oracle \in OracleOutcomes, ud \in UtilizationInputs :
         LET totalFundSize == getTotalFundSize(oracle)
             allocation == getBaselineAllocation(baseline_configuration, date)
             baselineConfig == {<<c, allocation[c]>> : c \in DOMAIN allocation}
             fundFlows == getFundFlows(fund_flows, date)
             call == [outcome |-> "none", date |-> date,
                      oracleFailed |-> ~oracle.ok,
                      totalFundSize |-> totalFundSize, utilizationData |-> ud,
                      fundFlows |-> <<>>, baselineConfig |-> {},
                      repeated |-> FALSE,
                      baselineValue |-> 0, optimizedValue |-> 0,
                      handed |-> <<>>]
         IN  IF NoUtilizationData(ud)
             THEN /\ lastCall' = [call EXCEPT !.outcome = "nodata"]
                  /\ UNCHANGED dbVars
             ELSE \E data \in {DailyRecord(date, totalFundSize,
                                           PerformancesOf[ud].baselinePerformance,
                                           PerformancesOf[ud].optimizedPerformance,
                                           fundFlows)} :
                  \E failAt \in 0..(1 + Len(data.chains)) :
                    LET computed ==
                            [call EXCEPT
                               !.fundFlows = fundFlows,
                               !.baselineConfig = baselineConfig,
                               !.repeated =
                                   /\ lastCall.outcome = "stored"
                                   /\ lastCall.date = date
                                   /\ lastCall.totalFundSize = totalFundSize
                                   /\ lastCall.utilizationData = ud
                                   /\ lastCall.fundFlows = fundFlows
                                   /\ lastCall.baselineConfig = baselineConfig,
                               !.baselineValue =
                                   PerformancesOf[ud].baselinePerformance.totalValue,
                               !.optimizedValue =
                                   PerformancesOf[ud].optimizedPerformance.totalValue,
                               !.handed = <<data>>]
                        tables == storeDailyPerformance(
                                      [daily_performance |-> daily_performance,
                                       chain_rates |-> chain_rates],
                                      data, failAt)
                    IN  /\ daily_performance' = tables.daily_performance
                        /\ chain_rates' = tables.chain_rates
                        /\ fund_flows' = fund_flows
                        /\ lastCall' = [computed EXCEPT !.outcome =
                                           IF failAt = 0 THEN "stored" ELSE "error"]
    /\ UNCHANGED <<trigVars, collectVars>>
    /\ UNCHANGED <<optVars, predVars>>

NextDaily ==
    \/ \E flowData \in FlowInputs : AddFundFlow(flowData)
    \/ \E date \in Dates : CalculateDailyPerformance(date)

SpecDaily == InitDaily /\ [][NextDaily]_vars

-----------------------------------------------------------------------------
(* The triggers of the daily computation.  An execution of
   calculateDailyPerformance is asynchronous: it starts when it is called and
   is in progress, across its awaits, until it returns or throws.  What it
   computes and stores is the action CalculateDailyPerformance above; here
   only its extent in time is followed. *)

\* the jobId of the performance calculation cron job, migrate.ts line 327
PerformanceJobId == "performance-calculation"
\* the jobId of the data collection cron job, migrate.ts line 302
DataCollectionJobId == "data-collection"
\* the two jobs startCronJobs schedules
CronJobIds == {DataCollectionJobId, PerformanceJobId}

\* the job id test of the cron callback skipped
JobRunningNever(jobs, jobId) ==
    FALSE

\* runningJobs.has(jobId), migrate.ts line 329
JobRunning(jobs, jobId) ==
    jobId \in jobs

InitTriggers ==
    /\ TriggersIdle
    /\ CollectIdle
    /\ DailyIdle
    /\ OptimizerIdle
    /\ PredictIdle

\* the scheduled tick of a job, migrate.ts lines 301-312 and 326-337, up to
\* its await: skipped when the job id is in runningJobs, else the id is added
\* and the job starts (performanceCalculationJob() computes today's date)
CronTick(jobId) ==
    /\ Len(executions) < MaxExecutions
    /\ IF JobRunning(runningJobs, jobId)
       THEN UNCHANGED <<runningJobs, executions>>
       ELSE /\ runningJobs' = runningJobs \cup {jobId}
            /\ executions' = Append(executions,
                   [trigger |-> "cron", job |-> jobId, date |-> today,
                    status |-> "running"])
    /\ UNCHANGED <<today, collectVars, optVars, predVars, dailyVars>>

\* POST /trigger/performance-calculation (allocationResolvers.ts lines
\* 264-284) through runPerformanceCalculationManually, migrate.ts lines
\* 385-388: performanceCalculationJob() computes today's date
RunPerformanceCalculationManually ==
    /\ Len(executions) < MaxExecutions
    /\ executions' = Append(executions,
           [trigger |-> "manual", job |-> PerformanceJobId, date |-> today,
            status |-> "running"])
    /\ UNCHANGED <<today, runningJobs, collectVars, optVars, predVars, dailyVars>>

\* the GraphQL mutation calculatePerformance(date), performanceResolvers.ts
\* lines 115-133
CalculatePerformanceMutation(date) ==
    /\ Len(executions) < MaxExecutions
    /\ executions' = Append(executions,
           [trigger |-> "mutation", job |-> PerformanceJobId, date |-> date,
            status |-> "running"])
    /\ UNCHANGED <<today, runningJobs, collectVars, optVars, predVars, dailyVars>>

\* the cron callback with the delete as the last statement of its try block
JobsAfterEndOfSuccessOnly(jobs, execution, outcome) ==
    IF execution.trigger = "cron" /\ outcome = "done"
    THEN jobs \ {execution.job}
    ELSE jobs

\* runningJobs after an execution has ended: the cron callback catches the
\* error, if any, and deletes the job id in its finally block (migrate.ts
\* lines 314-318 and 339-343); the other triggers do not touch the set
JobsAfterEnd(jobs, execution, outcome) ==
    IF execution.trigger = "cron"
    THEN jobs \ {execution.job}
    ELSE jobs

\* the awaited job of execution k returns ("done") or throws ("failed")
ExecutionReturns(k) ==
    /\ executions[k].status = "running"
    /\ \E outcome \in {"done", "failed"} :
          /\ executions' = [executions EXCEPT ![k].status = outcome]
          /\ runningJobs' = JobsAfterEnd(runningJobs, executions[k], outcome)
    /\ UNCHANGED <<today, collectVars, optVars, predVars, dailyVars>>

\* the calendar date changes
Midnight ==
    /\ today + 1 \in Dates
    /\ today' = today + 1
    /\ UNCHANGED <<runningJobs, executions, collectVars, optVars, predVars, dailyVars>>

NextTriggers ==
    \/ \E jobId \in CronJobIds : CronTick(jobId)
    \/ RunPerformanceCalculationManually
    \/ \E date \in Dates : CalculatePerformanceMutation(date)
    \/ \E k \in 1..Len(executions) : ExecutionReturns(k)
    \/ Midnight

SpecTriggers == InitTriggers /\ [][NextTriggers]_vars

-----------------------------------------------------------------------------
(* Chain-metric collection: AaveDataService.getAllChainsData.  fetches[c] is
   the promise of getAavePoolData(c):
     "idle"     not created
     "reserve"  awaiting poolContract.getReserveData (line 77)
     "supply"   awaiting aTokenContract.totalSupply and decimals (lines 98-101)
     "data"     fulfilled with the pool data of the chain
     "null"     fulfilled with null
     "hung"     the awaited call never settles: the promise stays pending
   getAavePoolData catches every throw and returns null, so no promise is
   ever rejected. *)

\* the pool data a fulfilled promise carries, lines 115-125
AavePoolData(f, c) ==
    [chainName |-> c, supplyAPY |-> f[c].supplyAPY]

\* the promises that are settled, as Promise.allSettled sees them
Settled(f, c) == f[c].status \in {"data", "null"}

\* the fan-in written as a Promise.all that gives up when a chain has failed
CollectResultAbortOnFailure(f) ==
    IF \E c \in DOMAIN f : f[c].status = "null" THEN <<>>
    ELSE [k \in 1..Len(SupportedChainOrder) |->
             AavePoolData(f, SupportedChainOrder[k])]

\* lines 150-154: the values of the fulfilled promises whose value is not
\* null, in the order of Object.keys(SUPPORTED_CHAINS)
CollectResult(f) ==
    LET Fulfilled(c) == f[c].status = "data"
        values == [k \in 1..Len(SupportedChainOrder) |->
                      AavePoolData(f, SupportedChainOrder[k])]
    IN  SelectSeq(values, LAMBDA v : Fulfilled(v.chainName))

InitCollect ==
    /\ DailyIdle
    /\ TriggersIdle
    /\ CollectIdle
    /\ OptimizerIdle
    /\ PredictIdle

\* getAllChainsData, lines 144-146: one getAavePoolData per key of
\* SUPPORTED_CHAINS, each run up to its first await; a chain with no provider
\* or no rpcUrl returns null at once (lines 54-62)
GetAllChainsData(configured) ==
    /\ \A c \in ChainNames : fetches[c].status = "idle"
    /\ ~collected.returned
    /\ fetches' = [c \in ChainNames |->
                      [status |-> IF c \in configured THEN "reserve" ELSE "null",
                       supplyAPY |-> 0]]
    /\ UNCHANGED collected
    /\ UNCHANGED <<optVars, predVars, dailyVars, trigVars>>

\* the await of getReserveData, line 77: it resolves, it throws (caught at
\* lines 127-130, null is returned), or it never settles
ReserveDataSettles(c) ==
    /\ fetches[c].status = "reserve"
    /\ \E outcome \in {"supply", "null", "hung"} :
          fetches' = [fetches EXCEPT ![c].status = outcome]
    /\ UNCHANGED collected
    /\ UNCHANGED <<optVars, predVars, dailyVars, trigVars>>

\* the await of totalSupply and decimals, lines 98-125: the pool data is
\* returned, or a call throws and null is returned, or a call never settles
TotalSupplySettles(c) ==
    /\ fetches[c].status = "supply"
    /\ \/ \E apy \in UtilizationAPYInputs :
             fetches' = [fetches EXCEPT ![c] = [status |-> "data", supplyAPY |-> apy]]
       \/ \E outcome \in {"null", "hung"} :
             fetches' = [fetches EXCEPT ![c].status = outcome]
    /\ UNCHANGED collected
    /\ UNCHANGED <<optVars, predVars, dailyVars, trigVars>>

\* the await of Promise.allSettled, lines 148-154: when every promise has
\* settled, getAllChainsData returns
AllSettled ==
    /\ ~collected.returned
    /\ \A c \in ChainNames : Settled(fetches, c)
    /\ collected' = [returned |-> TRUE, chains |-> CollectResult(fetches)]
    /\ UNCHANGED fetches
    /\ UNCHANGED <<optVars, predVars, dailyVars, trigVars>>

NextCollect ==
    \/ \E configured \in SUBSET ChainNames : GetAllChainsData(configured)
    \/ \E c \in ChainNames : ReserveDataSettles(c)
    \/ \E c \in ChainNames : TotalSupplySettles(c)
    \/ AllSettled

SpecCollect == InitCollect /\ [][NextCollect]_vars

\* every await that is going to settle does, and the continuation of a
\* settled Promise.allSettled runs: the event loop runs every ready callback
FairSpecCollect ==
    /\ SpecCollect
    /\ WF_vars(\E configured \in SUBSET ChainNames : GetAllChainsData(configured))
    /\ \A c \in ChainNames : WF_vars(ReserveDataSettles(c))
    /\ \A c \in ChainNames : WF_vars(TotalSupplySettles(c))
    /\ WF_vars(AllSettled)

-----------------------------------------------------------------------------
(* Properties of the optimizer *)

TotalAllocation(m) == SumSeq([k \in 1..Len(m) |-> m[k].currentAllocation])

\* sum of allocation * apy / 100 over the working set, in cents
AggregateReturn(m) ==
    SumSeq([k \in 1..Len(m) |-> m[k].currentAllocation * m[k].currentAPY])

SeedMetrics == BuildChainMetrics(chainData, optArgs.totalFunds, optArgs.fundFlows)

\* the pair (a, b) of working set m is a feasible move that gains more than $1
ImprovingMove(m, a, b) ==
    /\ a # b
    /\ m[a].currentAllocation >= moveAmount
    /\ LET fromAPY == predictAPYAfterFundMovement(m[a].currentAPY,
                          m[a].totalLiquidity, -moveAmount, m[a].elasticityFactor)
           toAPY   == predictAPYAfterFundMovement(m[b].currentAPY,
                          m[b].totalLiquidity, moveAmount, m[b].elasticityFactor)
       IN  (m[a].currentAllocation - moveAmount) * fromAPY
             + (m[b].currentAllocation + moveAmount) * toAPY
           > m[a].currentAllocation * m[a].currentAPY
             + m[b].currentAllocation * m[b].currentAPY + 100

ImprovingMoveExists(m) ==
    \E a, b \in 1..Len(m) : ImprovingMove(m, a, b)

SomeMoveCommitted ==
    \E k \in 1..Len(chainMetrics) :
        chainMetrics[k].currentAllocation # SeedMetrics[k].currentAllocation

\* scenario 3: A = ethereum (seed 4,000,000, APY 4.0, liquidity 100,000,000,
\* elasticity 0.1), B = base (seed 1,000,000, APY 6.0, liquidity 20,000,000,
\* elasticity 0.2)
Scenario3Input ==
    <<[chainName |-> "ethereum", supplyAPY |-> 4000, totalLiquidity |-> 100000],
      [chainName |-> "base", supplyAPY |-> 6000, totalLiquidity |-> 20000]>>

\* C1: in every state of a run (after each committed move and on return) the
\* allocations of the working set sum to what the seed allocations sum to.
C1_AllocationConserved ==
    TotalAllocation(chainMetrics) = TotalAllocation(SeedMetrics)

\* a run has returned after moving funds
C1_Witness ==
    pc = "done" /\ SomeMoveCommitted /\ Len(chainMetrics) >= 2

\* C2: the aggregate predicted return never drops below the value the run
\* started with, and a run on a working set without an improving move returns
\* exactly the starting value.
C2_ReturnNeverDecreases ==
    /\ AggregateReturn(chainMetrics) >= AggregateReturn(SeedMetrics)
    /\ (pc = "done" /\ ~ImprovingMoveExists(SeedMetrics))
          => AggregateReturn(chainMetrics) = AggregateReturn(SeedMetrics)

\* a run has returned with a strictly larger aggregate return
C2_Witness ==
    pc = "done" /\ AggregateReturn(chainMetrics) > AggregateReturn(SeedMetrics)

\* C3 as claimed: the returned state admits no improving move.
C3_NoImprovingMoveOnReturn ==
    pc = "done" => ~ImprovingMoveExists(chainMetrics)

\* C3 as the code has it: the returned state admits no improving move unless
\* the run stopped at the cap of 10 passes; on scenario 3 one move A -> B is
\* committed in each of the 10 passes, the run stops at the cap with
\* A = 3,000,000 and B = 2,000,000 (sum 5,000,000) and A -> B still improving.
C3_NoImprovingMoveUnlessCapped ==
    /\ pc = "done" =>
          (~ImprovingMoveExists(chainMetrics) \/ iterations = maxIterations)
    /\ (pc = "done" /\ chainData = Scenario3Input) =>
          /\ iterations = maxIterations
          /\ chainMetrics[1].currentAllocation = 3000
          /\ chainMetrics[2].currentAllocation = 2000
          /\ TotalAllocation(chainMetrics) = 5000
          /\ ImprovingMove(chainMetrics, 1, 2)

\* scenario 3 has returned
C3_Witness ==
    pc = "done" /\ chainData = Scenario3Input /\ ImprovingMoveExists(chainMetrics)

\* C4: a run never makes more than 10 passes, a pass is started only while
\* fewer than 10 were made and (after the first) the pass before it committed
\* a move, the run returns otherwise, and every run returns.
C4_TerminatesWithinCap ==
    /\ [](iterations <= maxIterations)
    /\ [][iterations' # iterations =>
             /\ iterations' = iterations + 1
             /\ iterations < maxIterations
             /\ (iterations >= 1 => passMoves >= 1)]_vars
    /\ [](pc = "done" => (passMoves = 0 \/ iterations = maxIterations))
    /\ <>(pc = "done")

\* a run returned at the cap while its last pass still committed a move
C4_Witness ==
    pc = "done" /\ iterations = maxIterations /\ passMoves >= 1

\* C22: given a single chain, or a working set without a feasible improving
\* move (every source holds less than moveAmount, or no move gains more than
\* $1), the optimizer raises no error, makes one pass and returns every
\* chain's seed allocation and current APY unchanged.
C22_NoMoveReturnsSeed ==
    (Len(SeedMetrics) = 1 \/ ~ImprovingMoveExists(SeedMetrics)) =>
        /\ chainMetrics = SeedMetrics
        /\ pc = "done" =>
              /\ iterations = 1
              /\ OptimizerResult(chainMetrics) =
                    [k \in 1..Len(SeedMetrics) |->
                        [chainName |-> SeedMetrics[k].chainName,
                         allocation |-> SeedAllocation(BASELINE_ALLOCATION, SeedMetrics[k].chainName),
                         predictedAPY |-> chainData[k].supplyAPY]]

\* a run on two chains, one of them holding funds, returned without a move
C22_Witness ==
    /\ pc = "done"
    /\ Len(chainMetrics) = 2
    /\ ~ImprovingMoveExists(SeedMetrics)
    /\ \E k \in 1..2 : chainMetrics[k].currentAllocation >= moveAmount
    /\ \E k \in 1..2 : chainMetrics[k].totalLiquidity > 0

\* a run on a single chain returned
C22_SingleChainReturned ==
    pc = "done" /\ Len(chainMetrics) = 1 /\ chainMetrics[1].currentAllocation >= moveAmount

\* The reference search: greedy first-improvement over ordered pairs,
\* source-major, each accepted move applied before the next pair is looked at.
\* One pair (a, b) on working set m:
ReferenceMove(m, a, b) ==
    IF ImprovingMove(m, a, b)
    THEN [m EXCEPT
            ![a].currentAllocation = @ - moveAmount,
            ![a].currentAPY = predictAPYAfterFundMovement(
                                  m[a].currentAPY, m[a].totalLiquidity,
                                  -moveAmount, m[a].elasticityFactor),
            ![b].currentAllocation = @ + moveAmount,
            ![b].currentAPY = predictAPYAfterFundMovement(
                                  m[b].currentAPY, m[b].totalLiquidity,
                                  moveAmount, m[b].elasticityFactor)]
    ELSE m

\* the pairs of one pass in source-major order: (1,1), (1,2), ..., (n,n)
PairAt(n, k) == <<((k - 1) \div n) + 1, ((k - 1) % n) + 1>>

\* one pass from its k-th pair on
RECURSIVE ReferencePass(_, _)
ReferencePass(m, k) ==
    IF k > Len(m) * Len(m) THEN m
    ELSE LET next == CHOOSE o \in {ReferenceMove(m, PairAt(Len(m), k)[1],
                                                  PairAt(Len(m), k)[2])} : TRUE
         IN  ReferencePass(next, k + 1)

\* passes 1..MAX_ITERATIONS, ended early by a pass that moved nothing
RECURSIVE ReferenceSearch(_, _)
ReferenceSearch(m, iteration) ==
    IF iteration > maxIterations THEN m
    ELSE LET after == CHOOSE o \in {ReferencePass(m, 1)} : TRUE
         IN  IF after = m THEN m ELSE ReferenceSearch(after, iteration + 1)

\* C23: calculateOptimalAllocation is the greedy first-improvement search: a
\* pass visits the ordered pairs source-major, each pair is evaluated on the
\* working set as the moves committed before it left it (a pair with i = j
\* or allocation[i] < moveAmount, or gaining at most $1, changes nothing; any
\* other is committed at once), and the allocations and APYs returned are
\* those of the reference search on the same input.
C23_GreedyFirstImprovement ==
    /\ [][pc = "pair" =>
             /\ chainMetrics' = ReferenceMove(chainMetrics, i, j)
             /\ pc' = "pair" =>
                   \/ i' = i /\ j' = j + 1
                   \/ i' = i + 1 /\ j' = 1 /\ j = Len(chainMetrics)
             /\ pc' # "pair" => (i = Len(chainMetrics) /\ j = Len(chainMetrics))]_vars
    /\ [][(pc = "while" /\ pc' = "pair") => (i' = 1 /\ j' = 1)]_vars
    /\ [](pc = "done" =>
             /\ OptimizerResult(chainMetrics)
                    = OptimizerResult(ReferenceSearch(SeedMetrics, 1))
             /\ calculateOptimalAllocation(chainData, optArgs.totalFunds, optArgs.fundFlows)
                    = OptimizerResult(ReferenceSearch(SeedMetrics, 1)))

\* a run returned after a pass in which a move was committed on chains with
\* liquidity, so that the pairs after it saw other rates than the seed's
C23_Witness ==
    /\ pc = "done"
    /\ Len(chainMetrics) = 2
    /\ iterations >= 2
    /\ \E k \in 1..2 :
          /\ chainMetrics[k].currentAllocation # SeedMetrics[k].currentAllocation
          /\ chainMetrics[k].currentAPY # SeedMetrics[k].currentAPY

\* other totalFunds ($K) and fundFlows arguments the same chain data could be
\* passed with
ComparedArgs ==
    [totalFunds : {0, 1000, 5000, 10000},
     fundFlows : {<<>>,
                  <<[flowType |-> "deposit", amount |-> 1000]>>,
                  <<[flowType |-> "withdrawal", amount |-> 6000]>>,
                  <<[flowType |-> "deposit", amount |-> 1000],
                    [flowType |-> "withdrawal", amount |-> 6000]>>}]

\* C24: the allocations and predicted APYs calculateOptimalAllocation returns
\* depend on the chain metrics and the fixed baseline seed only: a run on the
\* same chain metrics with any other totalFunds and fundFlows returns the
\* same result, and the seed is the baseline whatever the available funds.
C24_ResultIndependentOfFunds ==
    /\ \A k \in 1..Len(SeedMetrics) :
          SeedMetrics[k].currentAllocation
              = SeedAllocation(BASELINE_ALLOCATION, SeedMetrics[k].chainName)
    /\ pc = "done" =>
          \A other \in ComparedArgs :
              calculateOptimalAllocation(chainData, other.totalFunds, other.fundFlows)
                  = OptimizerResult(chainMetrics)

\* a run with $10M of funds and a withdrawal of $6M returned after moving funds
C24_Witness ==
    /\ pc = "done"
    /\ optArgs.totalFunds = 10000
    /\ Len(optArgs.fundFlows) = 1
    /\ AvailableFunds(optArgs.totalFunds, optArgs.fundFlows) = 4000
    /\ SomeMoveCommitted

\* C25: in every state of an optimizer run every chain's currentAllocation is
\* >= 0, the seed allocations being non-negative: funds are taken only from a
\* chain holding at least moveAmount, so a source is drained to 0 at most.
C25_AllocationsNonNegative ==
    /\ \A k \in 1..Len(SeedMetrics) : SeedMetrics[k].currentAllocation >= 0
    /\ \A k \in 1..Len(chainMetrics) : chainMetrics[k].currentAllocation >= 0

\* a chain seeded with funds has been drained to exactly 0
C25_Witness ==
    \E k \in 1..Len(chainMetrics) :
        /\ SeedMetrics[k].currentAllocation >= moveAmount
        /\ chainMetrics[k].currentAllocation = 0

\* a move out of a chain holding nothing would have gained more than $1 and
\* was not made
C25_EmptySourceSkipped ==
    /\ pc = "done"
    /\ \E a, b \in 1..Len(chainMetrics) :
          /\ a # b
          /\ chainMetrics[a].currentAllocation = 0
          /\ (chainMetrics[b].currentAllocation + moveAmount)
                 * predictAPYAfterFundMovement(
                       chainMetrics[b].currentAPY, chainMetrics[b].totalLiquidity,
                       moveAmount, chainMetrics[b].elasticityFactor)
               - moveAmount
                 * predictAPYAfterFundMovement(
                       chainMetrics[a].currentAPY, chainMetrics[a].totalLiquidity,
                       -moveAmount, chainMetrics[a].elasticityFactor)
             > chainMetrics[b].currentAllocation * chainMetrics[b].currentAPY
               + MinImprovementCents

-----------------------------------------------------------------------------
(* Properties of the predictor *)

C6_GuardReached ==
    /\ predictResult.returned
    /\ predictArgs[2] = 0 /\ predictArgs[3] # 0 /\ predictArgs[4] # 0
    /\ predictResult.value = predictArgs[1]

-----------------------------------------------------------------------------
(* Properties of the daily computation *)

\* the last call computed a record and handed it to storeDailyPerformance
RecordHanded == lastCall.handed # <<>>

Handed == lastCall.handed[1]

\* the sign of a double
FSign(a) ==
    IF a.k = "nan" THEN "nan"
    ELSE IF a.v > 0 THEN "positive"
    ELSE IF a.v < 0 THEN "negative"
    ELSE "zero"

C7_NegativeBaselineReached ==
    /\ RecordHanded
    /\ IsFinite(Handed.totalFundAllocationBaseline)
    /\ Handed.totalFundAllocationBaseline.v < 0
    /\ Handed.differentialPercentage = Fin(0)

C9_MultiplierGuardedAtZeroFundSize ==
    RecordHanded =>
        /\ lastCall.totalFundSize # 0 =>
              LET multiplier ==
                      FlowMultiplier(lastCall.totalFundSize, Handed.netFlow)
              IN  /\ multiplier.num * lastCall.totalFundSize =
                         multiplier.den * (lastCall.totalFundSize + Handed.netFlow)
                  /\ Handed.totalFundAllocationBaseline =
                         TimesMultiplier(lastCall.baselineValue, multiplier)
                  /\ Handed.totalFundAllocationOptimized =
                         TimesMultiplier(lastCall.optimizedValue, multiplier)
        /\ lastCall.totalFundSize = 0 =>
              /\ Handed.totalFundAllocationBaseline = Fin(lastCall.baselineValue)
              /\ Handed.totalFundAllocationOptimized = Fin(lastCall.optimizedValue)
              /\ IsFinite(Handed.differential)
              /\ IsFinite(Handed.differentialPercentage)

\* the oracle reported an empty pool and the record holds NaN totals
C9_NaNRecordHanded ==
    /\ RecordHanded
    /\ lastCall.totalFundSize = 0
    /\ Handed.totalFundAllocationBaseline = NaN
    /\ Handed.totalFundAllocationOptimized = NaN

\* C10: after a computation of a date is stored, the daily row and the chain
\* entries stored for that date are exactly those of that computation: no
\* chain entry of an earlier computation of the date remains unless the
\* latest one also produced it.
C10_RecomputeReplacesRecord ==
    lastCall.outcome = "stored" =>
        /\ {r \in daily_performance : r.date = lastCall.date} = {DailyRow(Handed)}
        /\ {r \in chain_rates : r.date = lastCall.date} = ChainRateRows(Handed)

\* a date was recomputed and a chain entry of the earlier computation remains
C10_StaleChainEntryReached ==
    /\ lastCall.outcome = "stored"
    /\ \E r \in chain_rates :
          /\ r.date = lastCall.date
          /\ \A k \in 1..Len(Handed.chains) : Handed.chains[k].chainName # r.chainName

\* a step of calculateDailyPerformance that followed a stored computation of
\* the same date with the same total fund size, chain metrics, fund flows and
\* baseline configuration, and was stored as well
RepeatedComputation ==
    /\ runs' = runs + 1
    /\ lastCall.outcome = "stored"
    /\ lastCall'.outcome = "stored"
    /\ lastCall'.date = lastCall.date
    /\ lastCall'.totalFundSize = lastCall.totalFundSize
    /\ lastCall'.utilizationData = lastCall.utilizationData
    /\ lastCall'.fundFlows = lastCall.fundFlows
    /\ lastCall'.baselineConfig = lastCall.baselineConfig

\* C11: running calculateDailyPerformance twice for the same date with
\* identical inputs leaves the store as the first run left it: one daily row
\* for the date, the same chain entries, no duplicate, nothing accumulated
\* from the stored record of that date or of another date.
C11_RepeatLeavesStoreUnchanged ==
    [][RepeatedComputation =>
          /\ daily_performance' = daily_performance
          /\ chain_rates' = chain_rates
          /\ Cardinality({r \in daily_performance' : r.date = lastCall'.date}) = 1
          /\ {r \in daily_performance' : r.date = lastCall'.date}
                 = {DailyRow(lastCall.handed[1])}]_vars

\* a date with fund flows and chain entries was computed and stored twice
\* from the same inputs
C11_Witness ==
    /\ lastCall.outcome = "stored"
    /\ lastCall.repeated
    /\ Handed.totalInflows > 0
    /\ Handed.totalOutflows > 0
    /\ Len(Handed.chains) = 2

\* C13: after any sequence of daily computations, of any dates and repeated any
\* number of times, the store holds at most one daily performance row per date
\* and at most one chain entry per (date, chainName).
C13_OneRowPerKey ==
    /\ \A r, s \in daily_performance : r.date = s.date => r = s
    /\ \A r, s \in chain_rates :
          (r.date = s.date /\ r.chainName = s.chainName) => r = s

\* a date already stored was computed again from other chain metrics and
\* stored: one daily row, and more chain entries than the last record has
C13_Witness ==
    /\ lastCall.outcome = "stored"
    /\ ~lastCall.repeated
    /\ runs = 2
    /\ Cardinality({r \in daily_performance : r.date = lastCall.date}) = 1
    /\ Cardinality({r \in chain_rates : r.date = lastCall.date})
           > Len(Handed.chains)

\* a step of calculateDailyPerformance whose chain-metric collection yielded
\* zero chains
NoChainsCollected ==
    /\ runs' = runs + 1
    /\ Len(lastCall'.utilizationData) = 0

\* C14: when chain-metric collection yields zero chains,
\* calculateDailyPerformance reports the no-data outcome and returns no record,
\* writes nothing to the store (a record already stored for the date stays as
\* it is), and produces no record, zero-differential or other, for the day.
C14_NoDataSkipsTheDay ==
    [][NoChainsCollected =>
          /\ lastCall'.outcome = "nodata"
          /\ lastCall'.handed = <<>>
          /\ daily_performance' = daily_performance
          /\ chain_rates' = chain_rates
          /\ fund_flows' = fund_flows]_vars

\* a no-data call for a date that has a record stored
C14_Witness ==
    /\ lastCall.outcome = "nodata"
    /\ lastCall.utilizationData = <<>>
    /\ \E r \in daily_performance : r.date = lastCall.date
    /\ \E r \in chain_rates : r.date = lastCall.date

\* a step of calculateDailyPerformance in which a write of the upsert failed
FailedStore ==
    /\ runs' = runs + 1
    /\ lastCall'.outcome = "error"

\* C15: if a write of the daily upsert fails (the daily row or any chain
\* entry), the store is exactly as before the call, none of the call's writes
\* is visible, and the caller receives an error, not the no-data outcome.
C15_FailedStoreLeavesStoreAsBefore ==
    [][FailedStore =>
          /\ daily_performance' = daily_performance
          /\ chain_rates' = chain_rates
          /\ fund_flows' = fund_flows
          /\ lastCall'.outcome # "nodata"
          /\ lastCall'.utilizationData # <<>>]_vars

\* the store failed for a record of two chains whose daily row is not in the
\* store, while a record of the same date computed earlier is
C15_Witness ==
    /\ lastCall.outcome = "error"
    /\ Len(Handed.chains) = 2
    /\ DailyRow(Handed) \notin daily_performance
    /\ \E r \in daily_performance : r.date = lastCall.date

\* C16: if the total fund size oracle call fails, the daily computation is not
\* aborted: totalFundSize is the fallback fund size, the record of the day is
\* computed from it whenever there is chain data, and the record is the one
\* in the store when the store succeeds.
C16_OracleFailureFallsBack ==
    (lastCall.outcome # "none" /\ lastCall.oracleFailed) =>
        /\ lastCall.totalFundSize = FALLBACK_FUND_SIZE
        /\ lastCall.utilizationData # <<>> =>
              /\ RecordHanded
              /\ Handed.previousDayTotal = FALLBACK_FUND_SIZE
        /\ lastCall.outcome = "stored" =>
              DailyRow(Handed) \in daily_performance

\* the oracle failed and the record of the day was computed and stored
C16_Witness ==
    /\ lastCall.oracleFailed
    /\ lastCall.outcome = "stored"
    /\ lastCall.totalFundSize = FALLBACK_FUND_SIZE
    /\ Len(Handed.chains) = 2
    /\ DailyRow(Handed) \in daily_performance

\* C19: the baseline allocation used for a date, as allocationBaseline in the
\* chain entries (and so in the baseline total and as the optimizer's seed),
\* is the per-chain allocation of the baseline configuration effective on
\* that date when there is one, the built-in constant only when there is none.
C19_BaselineFromEffectiveConfiguration ==
    RecordHanded =>
        \A k \in 1..Len(Handed.chains) :
            <<Handed.chains[k].chainName, Handed.chains[k].allocationBaseline>>
                \in lastCall.baselineConfig

\* a record computed for a date with an effective configuration carries the
\* allocation of the built-in constant, which the configuration does not have
C19_ConstantUsedDespiteConfiguration ==
    /\ RecordHanded
    /\ lastCall.date = 2
    /\ <<"ethereum", 2500>> \in lastCall.baselineConfig
    /\ \E k \in 1..Len(Handed.chains) :
          /\ Handed.chains[k].chainName = "ethereum"
          /\ Handed.chains[k].allocationBaseline = BASELINE_ALLOCATION["ethereum"]

\* for a date with no effective configuration the built-in constant is used
C19_ConstantUsedWithoutConfiguration ==
    (RecordHanded /\ lastCall.date = 1) =>
        \A k \in 1..Len(Handed.chains) :
            Handed.chains[k].allocationBaseline
                = BASELINE_ALLOCATION[Handed.chains[k].chainName]

\* the key by which fund flows are deduplicated
SameFlowKey(f, g) ==
    /\ f.date = g.date
    /\ f.chainName = g.chainName
    /\ f.transactionHash = g.transactionHash

\* C20: after any sequence of addFundFlow calls at most one flow is stored per
\* (date, chainName, txHash): a flow whose key matches a stored flow is not
\* stored again, so it adds nothing to the totals of the day.
C20_OneFlowPerKey ==
    \A f, g \in fund_flows : SameFlowKey(f, g) => f = g

\* the same flow without a transaction hash was added twice and is stored
\* twice, and the record of the day counts it twice
C20_HashlessFlowStoredTwice ==
    /\ \E f, g \in fund_flows :
          /\ f # g
          /\ SameFlowKey(f, g)
          /\ f.transactionHash = NULL
          /\ f.flowType = "deposit" /\ f.amount = g.amount
          /\ f.flowType = g.flowType
          /\ f.date = lastCall.date
    /\ RecordHanded
    /\ Handed.totalInflows = 2000

\* flows that carry a transaction hash are stored once per key
C20_HashedFlowsStoredOnce ==
    \A f, g \in fund_flows :
        (SameFlowKey(f, g) /\ f.transactionHash # NULL) => f = g

\* the chains of the optimized performance of the latest call, with the
\* allocation the optimizer left on each
MovedTo == PerformancesOf[lastCall.utilizationData].optimizedPerformance.chains

\* C26: whenever totalFundSize > 0 and totalFundSize + netFlow >= 0, the
\* differential of the computed record is >= 0: the optimized total, summed
\* over every chain the optimizer holds funds on, is never below the baseline
\* total computed from the same chain metrics.
C26_DifferentialNonNegative ==
    (/\ RecordHanded
     /\ lastCall.totalFundSize > 0
     /\ lastCall.totalFundSize + Handed.netFlow >= 0) =>
        /\ lastCall.optimizedValue >= lastCall.baselineValue
        /\ Handed.differential.k = "fin"
        /\ Handed.differential.v >= 0
        /\ Handed.totalFundAllocationOptimized.v
              >= Handed.totalFundAllocationBaseline.v

\* a record with a positive differential after funds went to a chain that
\* has no baseline allocation, on a day with a deposit
C26_Witness ==
    /\ RecordHanded
    /\ lastCall.totalFundSize > 0
    /\ Handed.netFlow > 0
    /\ Handed.differential.v > 0
    /\ \E k \in 1..Len(MovedTo) :
          /\ MovedTo[k].chainName \notin DOMAIN BASELINE_ALLOCATION
          /\ MovedTo[k].allocation > 0

\* C27: in every stored record the chain entries account for the whole
\* optimized pool: allocationOptimized summed over the chain entries equals
\* allocationBaseline summed over them, and every chain the optimizer holds
\* funds on, one with no baseline allocation included, has a chain entry.
C27_ChainEntriesAccountForPool ==
    lastCall.outcome = "stored" =>
        /\ SumSeq([k \in 1..Len(Handed.chains) |-> Handed.chains[k].allocationOptimized])
              = SumSeq([k \in 1..Len(Handed.chains) |-> Handed.chains[k].allocationBaseline])
        /\ \A k \in 1..Len(MovedTo) :
              MovedTo[k].allocation > 0 =>
                  \E r \in chain_rates :
                      /\ r.date = lastCall.date
                      /\ r.chainName = MovedTo[k].chainName
                      /\ r.allocationOptimized = MovedTo[k].allocation

\* a record was stored whose optimized pool holds funds on a chain without a
\* chain entry
C27_FundsWithoutEntryReached ==
    /\ lastCall.outcome = "stored"
    /\ \E k \in 1..Len(MovedTo) :
          /\ MovedTo[k].allocation > 0
          /\ \A n \in 1..Len(Handed.chains) :
                Handed.chains[n].chainName # MovedTo[k].chainName

\* where every chain of the optimized pool with funds is a baseline chain,
\* the chain entries do add up
C27_EntriesAddUpOnBaselineChains ==
    (/\ lastCall.outcome = "stored"
     /\ \A k \in 1..Len(MovedTo) :
           MovedTo[k].allocation > 0 =>
               MovedTo[k].chainName \in DOMAIN BASELINE_ALLOCATION
     /\ \A c \in DOMAIN BASELINE_ALLOCATION :
           FindChain(lastCall.utilizationData, c) # 0) =>
        SumSeq([k \in 1..Len(Handed.chains) |-> Handed.chains[k].allocationOptimized])
          = SumSeq([k \in 1..Len(Handed.chains) |-> Handed.chains[k].allocationBaseline])

\* the working metrics the optimizer built in the latest call, lines 605-619
WorkingMetrics ==
    BuildChainMetrics(lastCall.utilizationData, lastCall.totalFundSize,
                      lastCall.fundFlows)

\* C28: each chain enters the optimizer with the total liquidity the chain
\* data provider reported for it: a chain that getUtilizationData reports
\* with non-zero total supply has that totalLiquidity in the working metrics,
\* so the predictor's zero-liquidity guard applies only to chains whose
\* reported liquidity is zero.
C28_ReportedLiquidityReachesOptimizer ==
    RecordHanded =>
        \A k \in 1..Len(WorkingMetrics) :
            LET reported ==
                    lastCall.utilizationData[
                        FindChain(lastCall.utilizationData,
                                  WorkingMetrics[k].chainName)]
            IN  reported.totalSupply # 0 =>
                    WorkingMetrics[k].totalLiquidity = reported.totalSupply

\* funds were moved to and from chains reported with $20M of supply, and every
\* rate came back from the predictor as it went in
C28_GuardAppliedToLiquidChains ==
    /\ RecordHanded
    /\ \E k \in 1..Len(MovedTo) :
          MovedTo[k].allocation # SeedAllocation(BASELINE_ALLOCATION, MovedTo[k].chainName)
    /\ \A k \in 1..Len(MovedTo) :
          /\ MovedTo[k].totalSupply = 0
          /\ lastCall.utilizationData[
                 FindChain(lastCall.utilizationData, MovedTo[k].chainName)].totalSupply
               = 20000
          /\ MovedTo[k].apy
               = lastCall.utilizationData[
                     FindChain(lastCall.utilizationData, MovedTo[k].chainName)].supplyAPY

\* the previousDayTotal handed to the store, as a double in dollars
PreviousDayTotalHanded == Fin(Handed.previousDayTotal * 1000)

\* C29: the previousDayTotal stored in the record of date D equals the
\* totalFundAllocationOptimized of the record stored for date D-1 when D is
\* computed, and is null when there is no record for D-1.
C29_PreviousDayTotalIsYesterdaysOptimized ==
    RecordHanded =>
        PreviousDayTotalHanded = getPreviousDayTotal(daily_performance, lastCall.date)

\* a record was stored for the day after a stored day with another value
\* than that day's optimized total as previousDayTotal
C29_TotalFundSizeStoredInstead ==
    /\ lastCall.outcome = "stored"
    /\ lastCall.date = 2
    /\ \E r \in daily_performance :
          /\ r.date = 1
          /\ r.totalFundAllocationOptimized.k = "fin"
          /\ r.totalFundAllocationOptimized # PreviousDayTotalHanded
    /\ Handed.previousDayTotal = lastCall.totalFundSize

\* what is stored as previousDayTotal is the total fund size of the call
C29_PreviousDayTotalIsTotalFundSize ==
    RecordHanded => Handed.previousDayTotal = lastCall.totalFundSize

-----------------------------------------------------------------------------
(* Properties of the triggers *)

\* the executions in progress
InProgress ==
    {k \in 1..Len(executions) :
        /\ executions[k].status = "running"
        /\ executions[k].job = PerformanceJobId}

\* C12: at no time are two executions of the daily computation for the same
\* date in progress, whichever way they were triggered (cron tick, manual
\* REST trigger, GraphQL mutation).
C12_OneExecutionPerDate ==
    \A k, l \in InProgress :
        k # l => executions[k].date # executions[l].date

\* two scheduled executions are never in progress together
C12_CronTicksExcludeEachOther ==
    \A k, l \in InProgress :
        (executions[k].trigger = "cron" /\ executions[l].trigger = "cron") => k = l

\* a scheduled execution and a mutation for the same date are in progress
C12_CronAndMutationOverlap ==
    \E k, l \in InProgress :
        /\ executions[k].trigger = "cron"
        /\ executions[l].trigger = "mutation"
        /\ executions[k].date = executions[l].date

-----------------------------------------------------------------------------
(* Properties of the chain-metric collection *)

\* C17: getAllChainsData issues one fetch per configured chain, all before any
\* of them settles, and returns exactly the metrics of the chains whose fetch
\* succeeded, once each and in the order of the configuration: whatever the
\* set of failing chains and the order of completion, a failed chain is not
\* in the result and does not keep the others from being returned.
C17_ReturnsTheChainsThatSucceeded ==
    /\ (\E c \in ChainNames : fetches[c].status # "idle") =>
           (\A c \in ChainNames : fetches[c].status # "idle")
    /\ collected.returned =>
          /\ {collected.chains[k].chainName : k \in 1..Len(collected.chains)}
                 = {c \in ChainNames : fetches[c].status = "data"}
          /\ Len(collected.chains)
                 = Cardinality({c \in ChainNames : fetches[c].status = "data"})
          /\ \A k \in 1..Len(collected.chains) :
                 collected.chains[k].supplyAPY
                     = fetches[collected.chains[k].chainName].supplyAPY
          /\ \A k, l \in 1..Len(collected.chains) :
                 k < l => \E m, n \in 1..Len(SupportedChainOrder) :
                            /\ m < n
                            /\ SupportedChainOrder[m] = collected.chains[k].chainName
                            /\ SupportedChainOrder[n] = collected.chains[l].chainName
    /\ (~collected.returned /\ \A c \in ChainNames : Settled(fetches, c)) =>
          ENABLED AllSettled

\* the collection returned two chains while the fetch of the third had failed
C17_Witness ==
    /\ collected.returned
    /\ fetches["base"].status = "null"
    /\ Len(collected.chains) = 2
    /\ collected.chains[1].chainName = "ethereum"
    /\ collected.chains[2].chainName = "optimism"

\* C18: chain-metric collection, once started, eventually returns, also when
\* the fetch of one chain never responds.
C18_CollectionCompletes ==
    (\E c \in ChainNames : fetches[c].status # "idle") ~> collected.returned

\* the fetch of one chain never responds, the others have settled, and the
\* collection has not returned
C18_HungFetchReached ==
    /\ ~collected.returned
    /\ fetches["base"].status = "hung"
    /\ \A c \in ChainNames \ {"base"} : fetches[c].status = "data"

-----------------------------------------------------------------------------
(* Properties of the fund flow totals *)

\* the amounts of the flows of one type, added up in no particular order
RECURSIVE SumOfFlowSet(_)
SumOfFlowSet(flows) ==
    IF flows = {} THEN 0
    ELSE LET f == CHOOSE g \in flows : TRUE
         IN  f.amount + SumOfFlowSet(flows \ {f})

FlowsOfType(fundFlows, type) ==
    {fundFlows[k] : k \in {n \in 1..Len(fundFlows) : fundFlows[n].flowType = type}}

\* the list in every order
Reorderings(fundFlows) ==
    {[k \in 1..Len(fundFlows) |-> fundFlows[p[k]]] :
        p \in {q \in [1..Len(fundFlows) -> 1..Len(fundFlows)] :
                  \A a, b \in 1..Len(fundFlows) : a # b => q[a] # q[b]}}

\* C21: for the list of a date's fund flows, totalInflows is the sum of the
\* deposit amounts, totalOutflows the sum of the withdrawal amounts and
\* netFlow their difference, whatever the order of the flows; an empty list
\* gives 0, 0 and 0; and these are the values stored in the day's record.
C21_FlowTotalsAreSums ==
    RecordHanded =>
        /\ Handed.totalInflows = SumOfFlowSet(FlowsOfType(lastCall.fundFlows, "deposit"))
        /\ Handed.totalOutflows = SumOfFlowSet(FlowsOfType(lastCall.fundFlows, "withdrawal"))
        /\ Handed.netFlow = Handed.totalInflows - Handed.totalOutflows
        /\ \A r \in Reorderings(lastCall.fundFlows) :
              /\ SumFlows(r, "deposit") = Handed.totalInflows
              /\ SumFlows(r, "withdrawal") = Handed.totalOutflows
        /\ lastCall.fundFlows = <<>> =>
              /\ Handed.totalInflows = 0
              /\ Handed.totalOutflows = 0
              /\ Handed.netFlow = 0
        /\ lastCall.outcome = "stored" =>
              \E r \in daily_performance :
                  /\ r.date = lastCall.date
                  /\ r.totalInflows = Handed.totalInflows
                  /\ r.totalOutflows = Handed.totalOutflows
                  /\ r.netFlow = Handed.netFlow

\* a record was stored for a date with a withdrawal added before a deposit
C21_Witness ==
    /\ lastCall.outcome = "stored"
    /\ Len(lastCall.fundFlows) = 2
    /\ lastCall.fundFlows[1].flowType = "withdrawal"
    /\ lastCall.fundFlows[2].flowType = "deposit"
    /\ Handed.totalInflows = 1000
    /\ Handed.totalOutflows = 6000
    /\ Handed.netFlow = -5000

-----------------------------------------------------------------------------
(* Properties of the cron overlap guard *)

\* the scheduled instances of a job that are running
RunningInstances(jobId) ==
    {k \in 1..Len(executions) :
        /\ executions[k].trigger = "cron"
        /\ executions[k].job = jobId
        /\ executions[k].status = "running"}

\* C30: the cron overlap guard admits at most one running instance per job id
\* (performance-calculation and data-collection): a tick that fires while the
\* job is running starts nothing, then or when the running instance ends, and
\* whenever an instance ends, normally or with an error, its id leaves
\* runningJobs, so a job id is in runningJobs only while an instance of it
\* runs and a later tick is not blocked by a finished or failed run.
C30_OneRunningInstancePerJob ==
    /\ [](\A jobId \in CronJobIds :
             /\ Cardinality(RunningInstances(jobId)) <= 1
             /\ jobId \in runningJobs <=> RunningInstances(jobId) # {})
    /\ [][\A jobId \in CronJobIds :
             /\ RunningInstances(jobId) # {} =>
                   RunningInstances(jobId)' \subseteq RunningInstances(jobId)
             /\ (RunningInstances(jobId) # {} /\ RunningInstances(jobId)' = {}) =>
                   /\ jobId \notin runningJobs'
                   /\ Len(executions') = Len(executions)]_vars

\* an instance of a job failed, a later tick started the job again, and the
\* other job is running too
C30_Witness ==
    \E k, l, m \in 1..Len(executions) :
        /\ k < l
        /\ executions[k].trigger = "cron" /\ executions[l].trigger = "cron"
        /\ executions[k].job = executions[l].job
        /\ executions[k].status = "failed"
        /\ executions[l].status = "running"
        /\ executions[m].trigger = "cron"
        /\ executions[m].job # executions[k].job
        /\ executions[m].status = "running"
        /\ runningJobs = CronJobIds

====
